---- MODULE Spec2Model ----
(***************************************************************************)
(* The vote_backend canister (src/Vote/src/vote_backend/src/lib.rs): a     *)
(* stable map from u64 keys to Proposal records and the update and query   *)
(* methods over it.  Every canister call is one atomic step: the Internet  *)
(* Computer runs a message to completion, and a call that panics traps,    *)
(* which discards every change the call made.                              *)
(***************************************************************************)
EXTENDS Integers, Sequences, FiniteSets, TLC

VARIABLES
    store,   \* PROPOSAL_MAP: a function from the keys that hold a record to the record
    call,    \* the last call made: its method, key, caller and arguments
    prev,    \* what the map held at the key of the last call when it was made
    ret      \* what the last call returned (or that it trapped)

vars == <<store, call, prev, ret>>

---------------------------------------------------------------------------
(* Bounds of the model *)

NumKeys == 2          \* keys 1..NumKeys are used by the several-key specification
NumPrincipals == 2    \* callers 1..NumPrincipals make the calls
MaxVotes == 7         \* the largest tally the status specification draws

Keys == 1..NumKeys
OneKey == {1}
Principals == 1..NumPrincipals
Bools == {TRUE, FALSE}

(* Descriptions of 0 and 22 bytes: the longer one makes an encoded record  *)
(* pass MAX_VALUE_SIZE when the owner is a canister id or a second voter   *)
(* is added.                                                               *)
Descriptions == {"", "twenty-two characters!"}

(* Descriptions of 27 and 28 bytes: a record holding one leaves room for   *)
(* at most one vote, which keeps the several-key specification small.      *)
LongDescriptions == {"a description of 27 bytes!!", "a description of 28 bytes!!!"}

(* enum VoteTypes *)
VoteTypes == {"Approve", "Reject", "Pass"}

(* enum VoteError *)
VoteError ==
    {"AlreadyVoted", "ProposalNotActive", "Unauthorized", "NoProposal",
     "UpdateError", "VoteFailed"}

(* const MAX_VALUE_SIZE: the largest encoded Proposal the map accepts *)
MAX_VALUE_SIZE == 100

---------------------------------------------------------------------------
(* Values *)

(* Option and Result values, and the outcome of a call that panicked. *)
NoneVal == [kind |-> "None"]
Some(v) == [kind |-> "Some", value |-> v]
Ok == [kind |-> "Ok"]
Err(e) == [kind |-> "Err", err |-> e]
Trap == [kind |-> "Trap"]

(* The number of bytes of a candid::Principal.  Principal 2 is a canister  *)
(* id (10 bytes), principal 3 a self-authenticating user (29 bytes), the   *)
(* others are one-byte principals (the anonymous principal 0x04 is one).   *)
PrincipalLen(p) == IF p = 2 THEN 10 ELSE IF p = 3 THEN 29 ELSE 1

RECURSIVE SumLens(_)
SumLens(s) == IF s = <<>> THEN 0 ELSE 2 + PrincipalLen(Head(s)) + SumLens(Tail(s))

(* Proposal::to_bytes, Encode!(self): the length of the Candid message.    *)
(*   "DIDL" 4, type count 1, record type 2 + 7 fields of (hash, type):     *)
(*   the field hashes take 5,5,4,5,5,5,5 LEB128 bytes, so 41; vec          *)
(*   principal type 2; argument count 1, argument type 1: 52 bytes.        *)
(*   Values: text 1 + length; three nat32 12; bool 1; vec 1 + per          *)
(*   principal (1 + 1 + length); owner 1 + 1 + length.                     *)
EncodedLen(p) ==
    52 + (1 + Len(p.description)) + 12 + 1 + (1 + SumLens(p.voted))
       + (2 + PrincipalLen(p.owner))


(* BoundedStorable for Proposal: StableBTreeMap::insert asserts that the   *)
(* encoded value is at most MAX_SIZE bytes and panics otherwise.           *)
Fits(value) == EncodedLen(value) <= MAX_VALUE_SIZE

(* StableBTreeMap::get, ::insert (the map written, and the previous value  *)
(* returned) and ::len.                                                    *)
MapGet(m, key) == IF key \in DOMAIN m THEN Some(m[key]) ELSE NoneVal

MapPut(m, key, value) ==
    [x \in DOMAIN m \cup {key} |-> IF x = key THEN value ELSE m[x]]

MapLen(m) == Cardinality(DOMAIN m)

(* The outcome of a handler: the map it leaves and the value it returns.   *)
Outcome(m, r) == [store |-> m, ret |-> r]

---------------------------------------------------------------------------
(* Query methods *)

get_proposal(key) == MapGet(store, key)

get_proposal_count == MapLen(store)

(* Mutant of get_proposal_status: the shares must exceed 50%. *)
get_proposal_status_Strict(key) ==
    IF key \notin DOMAIN store THEN NoneVal
    ELSE LET proposal == store[key]
             total_votes == proposal.approve + proposal.reject + proposal.pass
         IN  IF Len(proposal.voted) < 5 THEN Some("Undecided")
             ELSE IF proposal.approve * 100 > 50 * total_votes THEN Some("Approved")
             ELSE IF proposal.reject * 100 > 50 * total_votes THEN Some("Rejected")
             ELSE IF proposal.pass * 100 > 50 * total_votes THEN Some("Passed")
             ELSE Some("Undecided")

(* The shares are f64 percentages; for tallies of this size              *)
(* (x / total) * 100.0 >= 50.0 holds exactly when x * 100 >= 50 * total.  *)
get_proposal_status(key) ==
    IF key \notin DOMAIN store THEN NoneVal
    ELSE LET proposal == store[key]
             total_votes == proposal.approve + proposal.reject + proposal.pass
         IN  IF Len(proposal.voted) < 5 THEN Some("Undecided")
             ELSE IF proposal.approve * 100 >= 50 * total_votes THEN Some("Approved")
             ELSE IF proposal.reject * 100 >= 50 * total_votes THEN Some("Rejected")
             ELSE IF proposal.pass * 100 >= 50 * total_votes THEN Some("Passed")
             ELSE Some("Undecided")

---------------------------------------------------------------------------
(* Update methods: each gives the outcome of the call on the current map *)

(* The record create_proposal builds. *)
NewProposal(proposal, caller) ==
    [description |-> proposal.description,
     approve |-> 0, reject |-> 0, pass |-> 0,
     is_active |-> proposal.is_active,
     voted |-> <<>>,
     owner |-> caller]

create_proposal(key, proposal, caller) ==
    LET value == NewProposal(proposal, caller)
    IN  IF ~Fits(value) THEN Outcome(store, Trap)
        ELSE Outcome(MapPut(store, key, value), MapGet(store, key))

(* Mutant of EditedProposal: the tally and the voted list start afresh. *)
EditedProposal_ResetVotes(old_proposal, proposal, caller) ==
    [description |-> proposal.description,
     approve |-> 0, reject |-> 0, pass |-> 0,
     is_active |-> proposal.is_active,
     voted |-> <<>>,
     owner |-> caller]

(* The record edit_proposal builds from the one it read. *)
EditedProposal(old_proposal, proposal, caller) ==
    [description |-> proposal.description,
     approve |-> old_proposal.approve,
     reject |-> old_proposal.reject,
     pass |-> old_proposal.pass,
     is_active |-> proposal.is_active,
     voted |-> old_proposal.voted,
     owner |-> caller]

(* Mutant of edit_proposal: the owner is not checked. *)
edit_proposal_NoOwnerCheck(key, proposal, caller) ==
    IF key \notin DOMAIN store THEN Outcome(store, Err("NoProposal"))
    ELSE LET value == EditedProposal(store[key], proposal, caller)
         IN  IF ~Fits(value) THEN Outcome(store, Trap)
             ELSE Outcome(MapPut(store, key, value), Ok)

(* Mutant of edit_proposal: a key that holds no record is written too. *)
edit_proposal_Upsert(key, proposal, caller) ==
    IF key \notin DOMAIN store
        THEN Outcome(MapPut(store, key, NewProposal(proposal, caller)),
                     Err("UpdateError"))
    ELSE LET old_proposal == store[key]
             value == EditedProposal(old_proposal, proposal, caller)
         IN  IF caller # old_proposal.owner THEN Outcome(store, Err("Unauthorized"))
             ELSE IF ~Fits(value) THEN Outcome(store, Trap)
             ELSE Outcome(MapPut(store, key, value), Ok)

edit_proposal(key, proposal, caller) ==
    IF key \notin DOMAIN store THEN Outcome(store, Err("NoProposal"))
    ELSE LET old_proposal == store[key]
             value == EditedProposal(old_proposal, proposal, caller)
             res == MapGet(store, key)
         IN  IF caller # old_proposal.owner THEN Outcome(store, Err("Unauthorized"))
             ELSE IF ~Fits(value) THEN Outcome(store, Trap)
             ELSE Outcome(MapPut(store, key, value),
                          IF res.kind = "Some" THEN Ok ELSE Err("UpdateError"))

(* Mutant of end_proposal: closing a proposal removes its record. *)
end_proposal_Remove(key, caller) ==
    IF key \notin DOMAIN store THEN Outcome(store, Trap)
    ELSE IF caller # store[key].owner THEN Outcome(store, Err("Unauthorized"))
    ELSE Outcome([x \in DOMAIN store \ {key} |-> store[x]], Ok)

(* Mutant of end_proposal: the arms of the match on the insert result are *)
(* swapped.                                                               *)
end_proposal_SwappedMatch(key, caller) ==
    IF key \notin DOMAIN store THEN Outcome(store, Trap)
    ELSE LET proposal == store[key]
             value == [proposal EXCEPT !.is_active = FALSE]
             res == MapGet(store, key)
         IN  IF caller # proposal.owner THEN Outcome(store, Err("Unauthorized"))
             ELSE IF ~Fits(value) THEN Outcome(store, Trap)
             ELSE Outcome(MapPut(store, key, value),
                          IF res.kind = "Some" THEN Err("UpdateError") ELSE Ok)

(* Mutant of end_proposal: every proposal of the caller is closed. *)
end_proposal_CloseAll(key, caller) ==
    IF key \notin DOMAIN store THEN Outcome(store, Trap)
    ELSE IF caller # store[key].owner THEN Outcome(store, Err("Unauthorized"))
    ELSE Outcome([x \in DOMAIN store |->
                     IF store[x].owner = caller
                     THEN [store[x] EXCEPT !.is_active = FALSE]
                     ELSE store[x]], Ok)

(* Mutant of end_proposal: the flag is toggled instead of cleared. *)
end_proposal_Toggle(key, caller) ==
    IF key \notin DOMAIN store THEN Outcome(store, Trap)
    ELSE LET proposal == store[key]
             value == [proposal EXCEPT !.is_active = ~proposal.is_active]
         IN  IF caller # proposal.owner THEN Outcome(store, Err("Unauthorized"))
             ELSE IF ~Fits(value) THEN Outcome(store, Trap)
             ELSE Outcome(MapPut(store, key, value), Ok)

(* Mutant of end_proposal: the record is closed and written before the    *)
(* owner is checked.                                                      *)
end_proposal_WriteFirst(key, caller) ==
    IF key \notin DOMAIN store THEN Outcome(store, Trap)
    ELSE LET proposal == store[key]
             value == [proposal EXCEPT !.is_active = FALSE]
         IN  IF ~Fits(value) THEN Outcome(store, Trap)
             ELSE IF caller # proposal.owner
                 THEN Outcome(MapPut(store, key, value), Err("Unauthorized"))
             ELSE Outcome(MapPut(store, key, value), Ok)

(* get(&key).unwrap() panics when the key holds no record. *)
end_proposal(key, caller) ==
    IF key \notin DOMAIN store THEN Outcome(store, Trap)
    ELSE LET proposal == store[key]
             value == [proposal EXCEPT !.is_active = FALSE]
             res == MapGet(store, key)
         IN  IF caller # proposal.owner THEN Outcome(store, Err("Unauthorized"))
             ELSE IF ~Fits(value) THEN Outcome(store, Trap)
             ELSE Outcome(MapPut(store, key, value),
                          IF res.kind = "Some" THEN Ok ELSE Err("UpdateError"))

(* Mutant of Contains: only the last voter is compared. *)
Contains_LastOnly(voted, caller) == Len(voted) > 0 /\ voted[Len(voted)] = caller

(* proposal.voted.contains(&caller) *)
Contains(voted, caller) == \E i \in 1..Len(voted) : voted[i] = caller

(* Mutant of Counted: every choice is counted as an approval. *)
Counted_AlwaysApprove(proposal, choice) ==
    [proposal EXCEPT !.approve = proposal.approve + 1]

(* match choice: the counter of the choice goes up by one.  The counters   *)
(* are u32; the size bound on the record keeps them far from 2^32.         *)
Counted(proposal, choice) ==
    CASE choice = "Approve" -> [proposal EXCEPT !.approve = proposal.approve + 1]
      [] choice = "Reject" -> [proposal EXCEPT !.reject = proposal.reject + 1]
      [] choice = "Pass" -> [proposal EXCEPT !.pass = proposal.pass + 1]

(* Mutant of Voted: the caller is not recorded. *)
Voted_NoPush(proposal, caller) == proposal

(* proposal.voted.push(caller) *)
Voted(proposal, caller) ==
    [proposal EXCEPT !.voted = Append(proposal.voted, caller)]

(* Mutant of vote: the activity of the proposal is not checked. *)
vote_NoActivityCheck(key, choice, caller) ==
    IF key \notin DOMAIN store THEN Outcome(store, Trap)
    ELSE LET proposal == store[key]
             value == Voted(Counted(proposal, choice), caller)
         IN  IF Contains(proposal.voted, caller)
                 THEN Outcome(store, Err("AlreadyVoted"))
             ELSE IF ~Fits(value) THEN Outcome(store, Trap)
             ELSE Outcome(MapPut(store, key, value), Ok)

(* Mutant of vote: the activity check comes before the voted check. *)
vote_ActivityFirst(key, choice, caller) ==
    IF key \notin DOMAIN store THEN Outcome(store, Trap)
    ELSE LET proposal == store[key]
             value == Voted(Counted(proposal, choice), caller)
         IN  IF ~proposal.is_active THEN Outcome(store, Err("ProposalNotActive"))
             ELSE IF Contains(proposal.voted, caller)
                 THEN Outcome(store, Err("AlreadyVoted"))
             ELSE IF ~Fits(value) THEN Outcome(store, Trap)
             ELSE Outcome(MapPut(store, key, value), Ok)

vote(key, choice, caller) ==
    IF key \notin DOMAIN store THEN Outcome(store, Trap)
    ELSE LET proposal == store[key]
             value == Voted(Counted(proposal, choice), caller)
             res == MapGet(store, key)
         IN  IF Contains(proposal.voted, caller)
                 THEN Outcome(store, Err("AlreadyVoted"))
             ELSE IF ~proposal.is_active THEN Outcome(store, Err("ProposalNotActive"))
             ELSE IF ~Fits(value) THEN Outcome(store, Trap)
             ELSE Outcome(MapPut(store, key, value),
                          IF res.kind = "Some" THEN Ok ELSE Err("VoteFailed"))

---------------------------------------------------------------------------
(* The state machine: one action per canister method *)

Init ==
    /\ store = <<>>
    /\ call = [op |-> "init"]
    /\ prev = NoneVal
    /\ ret = NoneVal

CreateProposal(key, description, is_active, caller) ==
    LET out == create_proposal(key,
                   [description |-> description, is_active |-> is_active], caller)
    IN  /\ store' = out.store
        /\ ret' = out.ret
        /\ prev' = MapGet(store, key)
        /\ call' = [op |-> "create_proposal", key |-> key, caller |-> caller,
                    description |-> description, is_active |-> is_active]

EditProposal(key, description, is_active, caller) ==
    LET out == edit_proposal(key,
                   [description |-> description, is_active |-> is_active], caller)
    IN  /\ store' = out.store
        /\ ret' = out.ret
        /\ prev' = MapGet(store, key)
        /\ call' = [op |-> "edit_proposal", key |-> key, caller |-> caller,
                    description |-> description, is_active |-> is_active]

EndProposal(key, caller) ==
    LET out == end_proposal(key, caller)
    IN  /\ store' = out.store
        /\ ret' = out.ret
        /\ prev' = MapGet(store, key)
        /\ call' = [op |-> "end_proposal", key |-> key, caller |-> caller]

Vote(key, choice, caller) ==
    LET out == vote(key, choice, caller)
    IN  /\ store' = out.store
        /\ ret' = out.ret
        /\ prev' = MapGet(store, key)
        /\ call' = [op |-> "vote", key |-> key, caller |-> caller,
                    choice |-> choice]

GetProposal(key) ==
    /\ ret' = get_proposal(key)
    /\ prev' = MapGet(store, key)
    /\ call' = [op |-> "get_proposal", key |-> key]
    /\ UNCHANGED store

GetProposalCount ==
    /\ ret' = Some(get_proposal_count)
    /\ prev' = NoneVal
    /\ call' = [op |-> "get_proposal_count"]
    /\ UNCHANGED store

GetProposalStatus(key) ==
    /\ ret' = get_proposal_status(key)
    /\ prev' = MapGet(store, key)
    /\ call' = [op |-> "get_proposal_status", key |-> key]
    /\ UNCHANGED store

Step(K, D) ==
    \/ \E key \in K, d \in D, a \in Bools, c \in Principals :
          CreateProposal(key, d, a, c)
    \/ \E key \in K, d \in D, a \in Bools, c \in Principals :
          EditProposal(key, d, a, c)
    \/ \E key \in K, c \in Principals : EndProposal(key, c)
    \/ \E key \in K, choice \in VoteTypes, c \in Principals :
          Vote(key, choice, c)
    \/ \E key \in K : GetProposal(key)
    \/ GetProposalCount
    \/ \E key \in K : GetProposalStatus(key)

(* One key, every method, short and long descriptions. *)
Next == Step(OneKey, Descriptions)

Spec == Init /\ [][Next]_vars

(* Several keys, every method, long descriptions. *)
NextKeys == Step(Keys, LongDescriptions)

SpecKeys == Init /\ [][NextKeys]_vars

(* The status query as a function of the tally.  The map holds one record  *)
(* at key 1, as left by the creation of an active proposal by principal 1  *)
(* and the votes of principals 11, 12, ... (one byte each) in this order,  *)
(* a of them to approve, r to reject and p to pass.                        *)
TalliedProposal(a, r, p) ==
    [description |-> "",
     approve |-> a, reject |-> r, pass |-> p,
     is_active |-> TRUE,
     voted |-> [i \in 1..(a + r + p) |-> 10 + i],
     owner |-> 1]

InitStatus ==
    /\ \E a \in 0..MaxVotes, r \in 0..MaxVotes, p \in 0..MaxVotes :
          /\ a + r + p <= MaxVotes
          /\ Fits(TalliedProposal(a, r, p))
          /\ store = [k \in OneKey |-> TalliedProposal(a, r, p)]
    /\ call = [op |-> "init"]
    /\ prev = NoneVal
    /\ ret = NoneVal

NextStatus == \E key \in Keys : GetProposalStatus(key)

SpecStatus == InitStatus /\ [][NextStatus]_vars

(* A closed proposal under vote, end_proposal and status calls.  The map   *)
(* holds at key 1 a tallied proposal as above, closed by its owner; the    *)
(* callers are principals 1 (the owner) and 2 and the first voter, 11.     *)
ClosedCallers == Principals \cup {11}

InitClosed ==
    /\ \E a \in 0..MaxVotes, r \in 0..MaxVotes, p \in 0..MaxVotes :
          /\ a + r + p <= MaxVotes
          /\ Fits(TalliedProposal(a, r, p))
          /\ store = [k \in OneKey |->
                        [TalliedProposal(a, r, p) EXCEPT !.is_active = FALSE]]
    /\ call = [op |-> "init"]
    /\ prev = NoneVal
    /\ ret = NoneVal

NextClosed ==
    \/ \E key \in OneKey, choice \in VoteTypes, c \in ClosedCallers :
          Vote(key, choice, c)
    \/ \E key \in OneKey, c \in ClosedCallers : EndProposal(key, c)
    \/ \E key \in OneKey : GetProposalStatus(key)

SpecClosed == InitClosed /\ [][NextClosed]_vars

---------------------------------------------------------------------------
(* Properties *)

(* C1: in every reachable state every stored proposal has                  *)
(* approve + reject + pass equal to the length of its voted list.          *)
C1_TallyMatchesVoted ==
    \A k \in DOMAIN store :
        store[k].approve + store[k].reject + store[k].pass = Len(store[k].voted)

(* A proposal holds two votes and was then edited by its owner. *)
C1_Witness ==
    /\ call.op = "edit_proposal" /\ ret = Ok
    /\ Len(store[call.key].voted) = 2

(* C2: once an identity is in the voted list of a proposal, a vote by it   *)
(* on that proposal, with any choice, returns AlreadyVoted and changes     *)
(* nothing, and edit_proposal, end_proposal and vote calls keep it in the  *)
(* voted list: it can never raise a second counter.                        *)
C2_OneVotePerIdentity ==
    [][\A k \in DOMAIN store, c \in Principals :
          Contains(store[k].voted, c) =>
            /\ (call'.op = "vote" /\ call'.key = k /\ call'.caller = c)
                  => (ret' = Err("AlreadyVoted") /\ store' = store)
            /\ call'.op \in {"edit_proposal", "end_proposal", "vote"}
                  => (k \in DOMAIN store' /\ Contains(store'[k].voted, c))]_vars

(* The first of two voters votes again on the still active proposal. *)
C2_Witness ==
    /\ call.op = "vote" /\ ret = Err("AlreadyVoted")
    /\ store[call.key].is_active
    /\ Len(store[call.key].voted) = 2
    /\ store[call.key].voted[1] = call.caller

(* C3: a vote on a closed proposal returns AlreadyVoted when the caller is *)
(* in the voted list and ProposalNotActive when it is not.                 *)
C3_ClosedVotePrecedence ==
    [][(call'.op = "vote" /\ call'.key \in DOMAIN store
          /\ ~store[call'.key].is_active) =>
        ret' = IF Contains(store[call'.key].voted, call'.caller)
               THEN Err("AlreadyVoted")
               ELSE Err("ProposalNotActive")]_vars

(* A voter votes again after the proposal was closed. *)
C3_Witness ==
    /\ call.op = "vote" /\ ret = Err("AlreadyVoted")
    /\ prev.kind = "Some" /\ ~prev.value.is_active

(* C4: edit_proposal and end_proposal on an existing proposal by a caller  *)
(* who is not its owner return Unauthorized and leave the map unchanged.   *)
C4_NonOwnerUnauthorized ==
    [][(call'.op \in {"edit_proposal", "end_proposal"}
          /\ call'.key \in DOMAIN store
          /\ call'.caller # store[call'.key].owner) =>
        (ret' = Err("Unauthorized") /\ store' = store)]_vars

(* A non-owner tries to close an active proposal that holds a vote. *)
C4_Witness ==
    /\ call.op = "end_proposal" /\ ret = Err("Unauthorized")
    /\ store[call.key].is_active
    /\ Len(store[call.key].voted) > 0

(* C5: get_proposal_status returns none on an absent key, Undecided below  *)
(* five voters, and otherwise Approved, Rejected or Passed for the first   *)
(* of approve, reject, pass that holds at least half of the votes, else    *)
(* Undecided.                                                              *)
StatusOfTally(n, a, r, p) ==
    IF n < 5 THEN "Undecided"
    ELSE IF 2 * a >= a + r + p THEN "Approved"
    ELSE IF 2 * r >= a + r + p THEN "Rejected"
    ELSE IF 2 * p >= a + r + p THEN "Passed"
    ELSE "Undecided"

StatusExamples ==
    {<<3, 1, 1, "Approved">>, <<1, 3, 1, "Rejected">>, <<1, 1, 3, "Passed">>,
     <<2, 2, 1, "Undecided">>, <<3, 3, 0, "Approved">>, <<0, 3, 3, "Rejected">>}

C5_StatusDerivation ==
    call.op = "get_proposal_status" =>
        IF call.key \notin DOMAIN store THEN ret = NoneVal
        ELSE LET q == store[call.key]
             IN  /\ ret = Some(StatusOfTally(Len(q.voted), q.approve, q.reject, q.pass))
                 /\ \A e \in StatusExamples :
                       (q.approve = e[1] /\ q.reject = e[2] /\ q.pass = e[3])
                           => ret = Some(e[4])

(* The status of a 0/3/3 tally was asked. *)
C5_Witness ==
    /\ call.op = "get_proposal_status" /\ ret = Some("Rejected")
    /\ call.key \in DOMAIN store
    /\ store[call.key].approve = 0 /\ store[call.key].reject = 3
    /\ store[call.key].pass = 3

(* C6: create_proposal on a key that holds no record raises               *)
(* get_proposal_count by exactly 1, and on a key that holds a record       *)
(* leaves it unchanged.                                                    *)
C6_CreateCount ==
    [][call'.op = "create_proposal" =>
        MapLen(store') = IF call'.key \in DOMAIN store
                         THEN MapLen(store)
                         ELSE MapLen(store) + 1]_vars

(* C7, as claimed: the owner of the record at a key is the same in every   *)
(* later state.                                                            *)
C7_OwnerImmutable ==
    [][\A k \in DOMAIN store :
          k \in DOMAIN store' /\ store'[k].owner = store[k].owner]_vars

(* C7, amended: the owner of the record at a key is not changed by         *)
(* edit_proposal, end_proposal or vote; it changes only when               *)
(* create_proposal on that key replaces the record, and the new owner is   *)
(* the caller of that create_proposal.                                     *)
C7_OwnerChangesOnlyByCreate ==
    [][\A k \in DOMAIN store :
          /\ k \in DOMAIN store'
          /\ store'[k].owner # store[k].owner =>
                /\ call'.op = "create_proposal" /\ call'.key = k
                /\ store'[k].owner = call'.caller]_vars

(* The owner changed the description; the owner is as before. *)
C7_Witness ==
    /\ call.op = "edit_proposal" /\ ret = Ok
    /\ prev.value.description # store[call.key].description
    /\ prev.value.owner = store[call.key].owner

(* C8, as claimed: a closed proposal becomes active again only by an       *)
(* edit_proposal call of its owner.                                        *)
C8_ReopenedOnlyByOwnerEdit ==
    [][\A k \in DOMAIN store :
          (~store[k].is_active /\ k \in DOMAIN store' /\ store'[k].is_active) =>
            /\ call'.op = "edit_proposal" /\ call'.key = k
            /\ call'.caller = store[k].owner]_vars

(* C8, amended: the record at a key goes from closed to active only by an  *)
(* edit_proposal call of its owner, or by a create_proposal call on that   *)
(* key with is_active = true (by any caller), which replaces the record.   *)
C8_ReopenedOnlyByOwnerEditOrCreate ==
    [][\A k \in DOMAIN store :
          (~store[k].is_active /\ k \in DOMAIN store' /\ store'[k].is_active) =>
            \/ /\ call'.op = "edit_proposal" /\ call'.key = k
               /\ call'.caller = store[k].owner
            \/ /\ call'.op = "create_proposal" /\ call'.key = k
               /\ call'.is_active]_vars

(* The owner reopened a closed proposal that holds a vote. *)
C8_Witness ==
    /\ call.op = "edit_proposal" /\ ret = Ok
    /\ ~prev.value.is_active /\ store[call.key].is_active
    /\ Len(store[call.key].voted) > 0

(* C9: an edit_proposal, end_proposal or vote call that returns an error   *)
(* kind leaves the whole map as it was before the call.                    *)
C9_ErrorLeavesStore ==
    [][(call'.op \in {"edit_proposal", "end_proposal", "vote"}
          /\ ret'.kind = "Err") => store' = store]_vars

(* A vote was refused on a closed proposal that holds no vote of the caller. *)
C9_Witness ==
    /\ call.op = "vote" /\ ret = Err("ProposalNotActive")
    /\ Len(store[call.key].voted) > 0

(* C10: every edit_proposal, end_proposal and vote call returns success or *)
(* one of the six error kinds; none aborts.                                *)
C10_NoAbort ==
    call.op \in {"edit_proposal", "end_proposal", "vote"} =>
        \/ ret = Ok
        \/ ret.kind = "Err" /\ ret.err \in VoteError

(* C11: edit_proposal on a key that holds no record returns NoProposal for *)
(* every caller; the key stays absent and the count of records unchanged.  *)
C11_EditAbsentKey ==
    [][(call'.op = "edit_proposal" /\ call'.key \notin DOMAIN store) =>
        /\ ret' = Err("NoProposal")
        /\ call'.key \notin DOMAIN store'
        /\ get_proposal_count' = get_proposal_count
        /\ store' = store]_vars

(* An edit of an absent key was refused while another key holds a record. *)
C11_Witness ==
    /\ call.op = "edit_proposal" /\ ret = Err("NoProposal")
    /\ call.key \notin DOMAIN store
    /\ get_proposal_count = 1

(* C12: a successful edit_proposal replaces the description and the       *)
(* is_active flag of the record by the supplied values and leaves approve, *)
(* reject, pass, the voted list and the owner as they were.                *)
C12_EditFrame ==
    [][(call'.op = "edit_proposal" /\ ret' = Ok) =>
        /\ call'.key \in DOMAIN store
        /\ call'.caller = store[call'.key].owner
        /\ store'[call'.key].description = call'.description
        /\ store'[call'.key].is_active = call'.is_active
        /\ store'[call'.key].approve = store[call'.key].approve
        /\ store'[call'.key].reject = store[call'.key].reject
        /\ store'[call'.key].pass = store[call'.key].pass
        /\ store'[call'.key].voted = store[call'.key].voted
        /\ store'[call'.key].owner = store[call'.key].owner
        /\ DOMAIN store' = DOMAIN store]_vars

(* The owner reopened a closed proposal that holds a vote under a new     *)
(* description; the tally and the voters are as before.                    *)
C12_Witness ==
    /\ call.op = "edit_proposal" /\ ret = Ok
    /\ ~prev.value.is_active /\ store[call.key].is_active
    /\ prev.value.description # store[call.key].description
    /\ Len(prev.value.voted) = 1
    /\ store[call.key].voted = prev.value.voted
    /\ store[call.key].approve = prev.value.approve

(* C13: end_proposal by the owner of an existing proposal returns success *)
(* and leaves is_active = false and every other field and key as it was;   *)
(* on a closed proposal it changes nothing, and a second call right after  *)
(* it leaves the map that the first one left.                              *)
C13_EndByOwner ==
    [][\A k \in Keys, c \in Principals :
          (call'.op = "end_proposal" /\ call'.key = k /\ call'.caller = c
             /\ k \in DOMAIN store /\ c = store[k].owner) =>
            /\ ret' = Ok
            /\ store' = [store EXCEPT ![k].is_active = FALSE]
            /\ ~store[k].is_active => store' = store
            /\ end_proposal(k, c)' = Outcome(store', Ok)]_vars

(* The owner closed a proposal that was closed already and holds a vote. *)
C13_Witness ==
    /\ call.op = "end_proposal" /\ ret = Ok
    /\ ~prev.value.is_active
    /\ Len(store[call.key].voted) > 0

(* C14: create_proposal never fails and checks no authorization: for any  *)
(* caller it stores at the key a record with the three counters 0, an      *)
(* empty voted list, owner = caller and the supplied description and flag, *)
(* and returns the record the key held before, or none.                    *)
C14_CreateAlwaysStores ==
    [][call'.op = "create_proposal" =>
        /\ ret' = IF call'.key \in DOMAIN store
                  THEN Some(store[call'.key]) ELSE NoneVal
        /\ call'.key \in DOMAIN store'
        /\ store'[call'.key] =
              [description |-> call'.description,
               approve |-> 0, reject |-> 0, pass |-> 0,
               is_active |-> call'.is_active,
               voted |-> <<>>,
               owner |-> call'.caller]]_vars

(* C15: a successful vote was cast by a caller outside the voted list on  *)
(* an active proposal; it raises the counter of the choice by 1, appends   *)
(* the caller to the voted list and leaves the two other counters, the     *)
(* description, the is_active flag and the owner unchanged.                 *)
CounterOf(q, choice) ==
    CASE choice = "Approve" -> q.approve
      [] choice = "Reject" -> q.reject
      [] choice = "Pass" -> q.pass

C15_VoteFrame ==
    [][(call'.op = "vote" /\ ret' = Ok) =>
        /\ call'.key \in DOMAIN store
        /\ store[call'.key].is_active
        /\ \A i \in 1..Len(store[call'.key].voted) :
              store[call'.key].voted[i] # call'.caller
        /\ \A t \in VoteTypes :
              CounterOf(store'[call'.key], t) =
                  CounterOf(store[call'.key], t) + (IF t = call'.choice THEN 1 ELSE 0)
        /\ store'[call'.key].voted = store[call'.key].voted \o <<call'.caller>>
        /\ Len(store'[call'.key].voted) = Len(store[call'.key].voted) + 1
        /\ store'[call'.key].description = store[call'.key].description
        /\ store'[call'.key].is_active = store[call'.key].is_active
        /\ store'[call'.key].owner = store[call'.key].owner]_vars

(* A second voter passed on a proposal that held one rejection. *)
C15_Witness ==
    /\ call.op = "vote" /\ ret = Ok /\ call.choice = "Pass"
    /\ prev.value.reject = 1 /\ Len(prev.value.voted) = 1
    /\ store[call.key].pass = 1 /\ store[call.key].reject = 1

(* C16: the voted list of every stored proposal holds no identity twice,  *)
(* and an identity enters the voted list of the proposal at a key only by  *)
(* a successful vote call of that identity on that key.                    *)
NoDuplicateVoters ==
    \A k \in DOMAIN store :
        \A i, j \in 1..Len(store[k].voted) :
            store[k].voted[i] = store[k].voted[j] => i = j

C16_VotedListSound ==
    /\ []NoDuplicateVoters
    /\ [][\A k \in DOMAIN store' :
             /\ Len(store'[k].voted) >
                   (IF k \in DOMAIN store THEN Len(store[k].voted) ELSE 0)
                   => (call'.op = "vote" /\ call'.key = k /\ ret' = Ok)
             /\ \A i \in 1..Len(store'[k].voted) :
                   \/ /\ k \in DOMAIN store
                      /\ i <= Len(store[k].voted)
                      /\ store[k].voted[i] = store'[k].voted[i]
                   \/ /\ call'.op = "vote" /\ call'.key = k /\ ret' = Ok
                      /\ call'.caller = store'[k].voted[i]]_vars

(* Two identities voted on a proposal, the owner last. *)
C16_Witness ==
    /\ call.op = "vote" /\ ret = Ok
    /\ Len(store[call.key].voted) = 2
    /\ store[call.key].voted[2] = store[call.key].owner
    /\ store[call.key].voted[1] # store[call.key].voted[2]

(* C17: once get_proposal(key) returns a record it returns a record in    *)
(* every later state, and get_proposal_count never decreases.              *)
C17_NeverDestroyed ==
    [][/\ \A k \in Keys :
             get_proposal(k).kind = "Some" => get_proposal(k)'.kind = "Some"
       /\ get_proposal_count' >= get_proposal_count]_vars

(* Every key holds a record and the last call replaced one of them. *)
C17_Witness ==
    /\ call.op = "create_proposal" /\ prev.kind = "Some"
    /\ ret = prev
    /\ get_proposal_count = NumKeys

(* C18: while the proposal at a key is closed, vote and end_proposal calls *)
(* by any callers leave it closed and leave its counters, its voted list   *)
(* and its status as they were, and every vote on it returns AlreadyVoted  *)
(* or ProposalNotActive.                                                   *)
C18_ClosedIsFrozen ==
    [][\A k \in DOMAIN store :
          (~store[k].is_active /\ call'.op \in {"vote", "end_proposal"}) =>
            /\ k \in DOMAIN store'
            /\ ~store'[k].is_active
            /\ store'[k].approve = store[k].approve
            /\ store'[k].reject = store[k].reject
            /\ store'[k].pass = store[k].pass
            /\ store'[k].voted = store[k].voted
            /\ get_proposal_status(k)' = get_proposal_status(k)
            /\ (call'.op = "vote" /\ call'.key = k) =>
                  ret' \in {Err("AlreadyVoted"), Err("ProposalNotActive")}]_vars

(* A new identity voted on a closed proposal whose status is Passed. *)
C18_Witness ==
    /\ call.op = "vote" /\ ret = Err("ProposalNotActive")
    /\ ~store[call.key].is_active
    /\ get_proposal_status(call.key) = Some("Passed")

(* C19: with every call one atomic step, edit_proposal and end_proposal   *)
(* never return UpdateError and vote never returns VoteFailed.             *)
C19_NoWriteBackError ==
    /\ call.op \in {"edit_proposal", "end_proposal"} => ret # Err("UpdateError")
    /\ call.op = "vote" => ret # Err("VoteFailed")

(* The owner closed an active proposal: the write-back found the record. *)
C19_Witness ==
    /\ call.op = "end_proposal" /\ ret = Ok
    /\ prev.kind = "Some" /\ prev.value.is_active
    /\ ~store[call.key].is_active

(* C20: create_proposal, edit_proposal, end_proposal and vote called with  *)
(* key k leave the record (or absence of a record) at every other key      *)
(* unchanged, whether they succeed or fail, and get_proposal,              *)
(* get_proposal_count and get_proposal_status leave the whole map          *)
(* unchanged.                                                              *)
C20_SingleKeyFrame ==
    [][/\ call'.op \in {"create_proposal", "edit_proposal", "end_proposal", "vote"}
           => \A k \in Keys \ {call'.key} : get_proposal(k)' = get_proposal(k)
       /\ call'.op \in {"get_proposal", "get_proposal_count", "get_proposal_status"}
           => store' = store]_vars

(* A vote was cast at key 2 while key 1 holds a closed proposal with a vote. *)
C20_Witness ==
    /\ call.op = "vote" /\ ret = Ok /\ call.key = 2
    /\ 1 \in DOMAIN store
    /\ ~store[1].is_active /\ Len(store[1].voted) = 1

====
